---- MODULE Spec2Model ----
(***************************************************************************)
(* Keyset pagination of the products table of nhalm/go-blueprint.          *)
(*                                                                         *)
(* The products table, the ListProducts :many query, the repository's      *)
(* ListWithFilters built on it, the service, the HTTP handlers with their  *)
(* error rendering, and the serve command's start and shutdown.            *)
(* Product ids are TEXT primary keys ordered by the                        *)
(* database's text comparison; the model uses 1..MaxId with the integer    *)
(* order for them, and 0 for a nil *string cursor.                         *)
(***************************************************************************)
EXTENDS Integers, Sequences, FiniteSets, TLC

VARIABLES table, call, trav, http, writes, op, deletedOk, serve

vars == <<table, call, trav, http, writes, op, deletedOk, serve>>

\* ------------------------------------------------------------------ bounds
\* Number of distinct product ids the table may ever hold.
MaxId == 3
\* Largest "small" page size tried besides the handler's default and maximum.
MaxPage == 2

\* ------------------------------------------------------- program constants
\* The largest limit the list handler passes on (parsed <= 100).
MaxLimit == 100
\* The limit the list handler uses when it takes none from the request.
DefaultLimit == 10

Ids == 1 .. MaxId

\* A nil *string cursor (filter.StartingAfter / filter.EndingBefore unset).
NoCursor == 0

Cursors == {NoCursor} \cup Ids

\* filter.Active is a *bool: nil, or a pointer to true or false.
ActiveFilters == {"nil", "true", "false"}

\* ------------------------------------------------------------- the table
\* One row of products: id is the key of the table function; the columns
\* the queries read are active and deleted_at (soft delete).
AbsentRow == [present |-> FALSE, active |-> FALSE, deleted |-> FALSE]

Min(a, b) == IF a < b THEN a ELSE b

\* The ids of a set in descending order (ORDER BY id DESC).
RECURSIVE OrderByIdDesc(_)
OrderByIdDesc(S) ==
    IF S = {} THEN <<>>
    ELSE LET m == CHOOSE x \in S : \A y \in S : x >= y
         IN  <<m>> \o OrderByIdDesc(S \ {m})

\* The ids of a set in ascending order (ORDER BY id ASC).
RECURSIVE OrderByIdAsc(_)
OrderByIdAsc(S) ==
    IF S = {} THEN <<>>
    ELSE LET m == CHOOSE x \in S : \A y \in S : x <= y
         IN  <<m>> \o OrderByIdAsc(S \ {m})

\* LIMIT n applied to an ordered row sequence.
SqlLimit(rows, n) == SubSeq(rows, 1, Min(n, Len(rows)))

\* The WHERE clause without its deleted_at IS NULL condition.
MatchesFilterWithDeleted(tbl, i, active) ==
    /\ tbl[i].present
    /\ (active = "nil" \/ tbl[i].active = (active = "true"))

\* WHERE deleted_at IS NULL AND ($1::boolean IS NULL OR active = $1)
MatchesFilter(tbl, i, active) ==
    /\ tbl[i].present
    /\ ~tbl[i].deleted
    /\ (active = "nil" \/ tbl[i].active = (active = "true"))

\* The row the queries return for id i: SELECT id, ..., active, ..., deleted_at
SelectRow(tbl, i) == [Id |-> i, Active |-> tbl[i].active, Deleted |-> tbl[i].deleted]

\* ListProducts with the cursor comparisons made inclusive (>= and <=).
ListProductsWhereInclusive(tbl, active, startingAfter, endingBefore) ==
    { i \in Ids : /\ tbl[i].present /\ ~tbl[i].deleted
                  /\ (active = "nil" \/ tbl[i].active = (active = "true"))
                  /\ (startingAfter = NoCursor \/ i >= startingAfter)
                  /\ (endingBefore = NoCursor \/ i <= endingBefore) }

\* ListProducts that looks the cursor row up among the live rows and returns
\* nothing when it is not there.
ListProductsWhereCursorRowLive(tbl, active, startingAfter, endingBefore) ==
    { i \in Ids : /\ tbl[i].present /\ ~tbl[i].deleted
                  /\ (active = "nil" \/ tbl[i].active = (active = "true"))
                  /\ (startingAfter = NoCursor \/
                        (i > startingAfter /\ startingAfter \in Ids
                           /\ tbl[startingAfter].present /\ ~tbl[startingAfter].deleted))
                  /\ (endingBefore = NoCursor \/ i < endingBefore) }

\* -- name: ListProducts :many
\* $1 = active filter, $2 = limit, $3 = starting_after, $4 = ending_before
ListProductsWhere(tbl, active, startingAfter, endingBefore) ==
    { i \in Ids : /\ MatchesFilter(tbl, i, active)
                  /\ (startingAfter = NoCursor \/ i > startingAfter)
                  /\ (endingBefore = NoCursor \/ i < endingBefore) }

ListProducts(tbl, active, limit, startingAfter, endingBefore) ==
    LET ordered == OrderByIdAsc(ListProductsWhere(tbl, active, startingAfter, endingBefore))
    IN  SqlLimit([k \in 1 .. Len(ordered) |-> SelectRow(tbl, ordered[k])], limit)

\* ------------------------------------------------- models.ListProductsFilter
\* The limits the callers pass: small page sizes and the handler's maximum.
Limits == (1 .. MaxPage) \cup {MaxLimit}

Filters == [Active : ActiveFilters, Limit : Limits,
            StartingAfter : Cursors, EndingBefore : Cursors]

\* ------------------------------------- ProductRepository.ListWithFilters
\* ListWithFilters asking the store for filter.Limit rows only.
FetchLimitExact(filter) == filter.Limit

\* The limit handed to the query: filter.Limit+1.
FetchLimit(filter) == filter.Limit + 1

\* hasMore computed with >= in place of >.
HasMoreAtLimit(results, filter) == Len(results) >= filter.Limit

\* hasMore := len(results) > filter.Limit
HasMore(results, filter) == Len(results) > filter.Limit

\* ListWithFilters without the truncation of the overfetched row.
TruncateNone(results, filter) == results

\* if hasMore { results = results[:filter.Limit] }
Truncate(results, filter) ==
    IF HasMore(results, filter) THEN SubSeq(results, 1, filter.Limit) ELSE results

\* products[i] = &models.Product{ID: result.Id, ..., DeletedAt: result.DeletedAt}
ToProducts(results) ==
    [k \in 1 .. Len(results) |->
        [ID |-> results[k].Id, Active |-> results[k].Active,
         DeletedAt |-> results[k].Deleted]]

\* "Can go back if we're paginating forward or backward"
CanGoBack(filter) ==
    filter.StartingAfter # NoCursor \/ filter.EndingBefore # NoCursor

\* nextCursor taken from the first product of the page instead of the last.
NextCursorFirst(products, hasMore) ==
    IF Len(products) > 0 /\ hasMore THEN products[1].ID ELSE NoCursor

\* if len(products) > 0 { last := ...; if hasMore { nextCursor = &last } }
NextCursor(products, hasMore) ==
    IF Len(products) > 0 /\ hasMore THEN products[Len(products)].ID ELSE NoCursor

\* prevCursor set on every non-empty page, first page included.
PrevCursorAlways(products, filter) ==
    IF Len(products) > 0 THEN products[1].ID ELSE NoCursor

\* if len(products) > 0 { first := ...; if StartingAfter != nil || EndingBefore != nil { prevCursor = &first } }
PrevCursor(products, filter) ==
    IF Len(products) > 0 /\ CanGoBack(filter) THEN products[1].ID ELSE NoCursor

NoResult == [Products |-> <<>>, HasMore |-> FALSE,
             NextCursor |-> NoCursor, PrevCursor |-> NoCursor]

\* The errors r.queries.ListProducts can return: the store's failures and the
\* cancellation of the caller's context; "nil" is success.
StoreErrors == {"connection", "timeout", "canceled"}

\* if err != nil { return nil, err } with the error translated.
ReturnErrTranslated(err) == IF err = "nil" THEN "nil" ELSE "internal"

\* if err != nil { return nil, err }: the error value handed to the caller.
ReturnErr(err) == err

\* ListWithFilters that reports an empty result of the store as an error.
ListWithFiltersEmptyIsError(tbl, filter, storeErr) ==
    LET results  == ListProducts(tbl, filter.Active, FetchLimit(filter),
                                 filter.StartingAfter, filter.EndingBefore)
        hasMore  == HasMore(results, filter)
        products == ToProducts(Truncate(results, filter))
    IN  IF storeErr # "nil" \/ results = <<>>
        THEN [queries |-> 1, fetchLimit |-> FetchLimit(filter), rows |-> <<>>,
              err |-> IF storeErr # "nil" THEN storeErr ELSE "not found",
              result |-> NoResult]
        ELSE [queries |-> 1, fetchLimit |-> FetchLimit(filter), rows |-> results,
              err |-> "nil",
              result |-> [Products   |-> products,
                          HasMore    |-> hasMore,
                          NextCursor |-> NextCursor(products, hasMore),
                          PrevCursor |-> PrevCursor(products, filter)]]

\* ListWithFilters that issues its query a second time when the first fails.
ListWithFiltersRetry(tbl, filter, storeErr) ==
    LET results  == ListProducts(tbl, filter.Active, FetchLimit(filter),
                                 filter.StartingAfter, filter.EndingBefore)
        hasMore  == HasMore(results, filter)
        products == ToProducts(Truncate(results, filter))
    IN  IF storeErr # "nil"
        THEN [queries |-> 2, fetchLimit |-> FetchLimit(filter), rows |-> <<>>,
              err |-> ReturnErr(storeErr), result |-> NoResult]
        ELSE [queries |-> 1, fetchLimit |-> FetchLimit(filter), rows |-> results,
              err |-> "nil",
              result |-> [Products   |-> products,
                          HasMore    |-> hasMore,
                          NextCursor |-> NextCursor(products, hasMore),
                          PrevCursor |-> PrevCursor(products, filter)]]

\* What one ListWithFilters call did: the store queries it issued, the limit
\* it asked the store for, the rows the store returned, and what it
\* returned to its caller (err, result).  storeErr is the outcome of the
\* query: "nil", or the error r.queries.ListProducts returns.
ListWithFilters(tbl, filter, storeErr) ==
    LET results  == ListProducts(tbl, filter.Active, FetchLimit(filter),
                                 filter.StartingAfter, filter.EndingBefore)
        hasMore  == HasMore(results, filter)
        products == ToProducts(Truncate(results, filter))
    IN  IF storeErr # "nil"
        THEN [queries |-> 1, fetchLimit |-> FetchLimit(filter), rows |-> <<>>,
              err |-> ReturnErr(storeErr), result |-> NoResult]
        ELSE [queries |-> 1, fetchLimit |-> FetchLimit(filter), rows |-> results,
              err |-> "nil",
              result |-> [Products   |-> products,
                          HasMore    |-> hasMore,
                          NextCursor |-> NextCursor(products, hasMore),
                          PrevCursor |-> PrevCursor(products, filter)]]

\* ProductService.ListProducts: return s.repo.ListWithFilters(ctx, filter)
ServiceListProducts(tbl, filter, storeErr) == ListWithFilters(tbl, filter, storeErr)

\* ------------------------------------------------- Handler.ListProducts
\* Query parameter values are strings.  limit is modelled as the sequence of
\* its characters; active as the string itself; starting_after as <<>> for
\* the empty string (also what Query().Get gives for an absent parameter),
\* <<i>> for the text of product id i, and <<MaxId + 1>> for a text that is
\* no product id and sorts after every id.
DigitChars == <<"0", "1", "2", "3", "4", "5", "6", "7", "8", "9">>

IsDigit(c) == \E k \in 1 .. Len(DigitChars) : DigitChars[k] = c

DigitVal(c) == (CHOOSE k \in 1 .. Len(DigitChars) : DigitChars[k] = c) - 1

RECURSIVE DigitsToInt(_)
DigitsToInt(ds) ==
    IF ds = <<>> THEN 0
    ELSE DigitsToInt(SubSeq(ds, 1, Len(ds) - 1)) * Len(DigitChars) + DigitVal(ds[Len(ds)])

\* strconv.Atoi: an optional sign, then one decimal digit or more; anything
\* else is an error.
Atoi(l) ==
    LET signed == l # <<>> /\ l[1] \in {"+", "-"}
        digits == IF signed THEN Tail(l) ELSE l
        ok     == digits # <<>> /\ \A k \in 1 .. Len(digits) : IsDigit(digits[k])
    IN  [ok |-> ok,
         n  |-> IF ~ok THEN 0
                ELSE IF signed /\ l[1] = "-" THEN 0 - DigitsToInt(digits)
                ELSE DigitsToInt(digits)]

\* The handler's limit with out-of-range numbers clamped into 1..100.
ParseLimitClamped(l) ==
    IF l # <<>> /\ Atoi(l).ok
    THEN IF Atoi(l).n < 1 THEN 1
         ELSE IF Atoi(l).n > MaxLimit THEN MaxLimit ELSE Atoi(l).n
    ELSE DefaultLimit

\* limit := 10; if l != "" { if parsed, err := strconv.Atoi(l);
\*     err == nil && parsed > 0 && parsed <= 100 { limit = parsed } }
ParseLimit(l) ==
    IF l # <<>> /\ Atoi(l).ok /\ Atoi(l).n > 0 /\ Atoi(l).n <= MaxLimit
    THEN Atoi(l).n
    ELSE DefaultLimit

\* if a != "" { b := a == "true"; active = &b }
ParseActive(a) ==
    IF a = "" THEN "nil" ELSE IF a = "true" THEN "true" ELSE "false"

\* The text of product id i, as the list response and the query carry it.
IdText(i) == <<i>>

\* func ptrOrNil(s string) *string
ptrOrNil(str) == IF str = <<>> THEN NoCursor ELSE str[1]

\* A cursor text that names the id before the one it stands for.
CursorStringShifted(ptr) == IF ptr = NoCursor \/ ptr = 1 THEN <<>> ELSE IdText(ptr - 1)

\* if result.NextCursor != nil { nextCursor = *result.NextCursor }, and the
\* same for PrevCursor: a nil cursor becomes the empty string, which the
\* response omits (json omitempty).
CursorString(ptr) == IF ptr = NoCursor THEN <<>> ELSE IdText(ptr)

\* handleServiceError: the HTTP status of an error of the service.
handleServiceError(err) ==
    CASE err = "not found"       -> 404
      [] err = "validation"      -> 400
      [] err = "conflict"        -> 409
      [] err = "optimistic lock" -> 409
      [] OTHER                   -> 500

NoBody == [has_more |-> FALSE, next_cursor |-> <<>>, prev_cursor |-> <<>>, data |-> <<>>]

\* One GET /products: the filter built from the query, the service call, and
\* the response (status; for 200 the list body).
HandlerListProducts(tbl, query, storeErr) ==
    LET filter == [Active        |-> ParseActive(query.active),
                   Limit         |-> ParseLimit(query.limit),
                   StartingAfter |-> ptrOrNil(query.starting_after),
                   EndingBefore  |-> NoCursor]
        r == ServiceListProducts(tbl, filter, storeErr)
    IN  IF r.err # "nil"
        THEN [filter |-> filter, queries |-> r.queries, err |-> r.err,
              result |-> r.result,
              status |-> handleServiceError(r.err), body |-> NoBody]
        ELSE [filter |-> filter, queries |-> r.queries, err |-> r.err,
              result |-> r.result,
              status |-> 200,
              body |-> [has_more    |-> r.result.HasMore,
                        next_cursor |-> CursorString(r.result.NextCursor),
                        prev_cursor |-> CursorString(r.result.PrevCursor),
                        data        |-> [k \in 1 .. Len(r.result.Products) |->
                                            IdText(r.result.Products[k].ID)]]]

\* The limit parameters tried: absent, not a number, zero, negative, the small
\* page sizes, the default, the maximum and one more than the maximum.
RawLimits ==
    { <<>>, <<"x">>, <<"0">>, <<"-", "1">>, <<"1", "0">>,
      <<"1", "0", "0">>, <<"1", "0", "1">> }
    \cup { <<DigitChars[n + 1]>> : n \in 1 .. MaxPage }

RawActives == {"", "true", "no"}

RawCursors == { <<>>, <<MaxId + 1>> } \cup { IdText(i) : i \in Ids }

Queries == [limit : RawLimits, active : RawActives, starting_after : RawCursors]

\* ------------------------------------------ errors and their rendering
\* An error value: its kind (the apperrors type, the repository's sentinel
\* ErrNotFound, or the class of a database error that was passed on as it
\* is), the ID of a NotFoundError (0: the empty string), and whether its
\* Error() text mentions sql, database or postgres.
NoErr == [kind |-> "nil", id |-> 0, db |-> FALSE]

\* The classes of database error the generated code tells apart (IsNotFound,
\* IsAlreadyExists, ...), and "Other" for an error that is no DatabaseError.
\* NotFound is how a query for a row that is not there ends; the others are
\* failures a query can end with whatever the table holds.
DbClasses ==
    {"AlreadyExists", "InvalidReference", "ValidationError",
     "ConnectionError", "Timeout", "DatabaseError", "Other"}

\* How a query can end other than by its rows: the class of its error and
\* whether the error's detail text mentions sql, database or postgres.
NoFault == [class |-> "nil", db |-> FALSE]

\* Every class, and for the two classes whose text comes from the database
\* alone (the detail of a constraint violation, an error that is no
\* DatabaseError) also the case that this text mentions the database.
DbFaults ==
    [class : DbClasses, db : {FALSE}] \cup [class : {"ValidationError", "Other"}, db : {TRUE}]

\* The failures tried for the existence check of an update or a delete.
CheckFaults == { f \in DbFaults : f.class \in {"ConnectionError", "Timeout"} }

\* The two repositories of the source tree differ in how GetByID reports a
\* failed query: with the sentinel ErrNotFound (and any other error as it
\* is), or through translateError.
RepoVariants == {"sentinel", "translate"}

\* GetProductByID without its deleted_at IS NULL condition.
GetProductByIDWithDeleted(tbl, i, fault) ==
    IF fault # NoFault THEN [err |-> fault, found |-> FALSE]
    ELSE IF tbl[i].present THEN [err |-> NoFault, found |-> TRUE]
    ELSE [err |-> [class |-> "NotFound", db |-> FALSE], found |-> FALSE]

\* GetProductByID :one -- WHERE id = $1 AND deleted_at IS NULL.  No row is
\* the not-found error of the generated code.
GetProductByID(tbl, i, fault) ==
    IF fault # NoFault THEN [err |-> fault, found |-> FALSE]
    ELSE IF tbl[i].present /\ ~tbl[i].deleted THEN [err |-> NoFault, found |-> TRUE]
    ELSE [err |-> [class |-> "NotFound", db |-> FALSE], found |-> FALSE]

\* translateError: the application error for a database error.
translateError(e) ==
    CASE e.class = "NotFound"         -> [kind |-> "not found", id |-> 0, db |-> FALSE]
      [] e.class = "AlreadyExists"    -> [kind |-> "conflict", id |-> 0, db |-> FALSE]
      [] e.class = "InvalidReference" -> [kind |-> "conflict", id |-> 0, db |-> FALSE]
      [] e.class = "ValidationError"  -> [kind |-> "validation", id |-> 0, db |-> e.db]
      [] e.class = "ConnectionError"  -> [kind |-> "service unavailable", id |-> 0, db |-> TRUE]
      [] e.class = "Timeout"          -> [kind |-> "operation timed out", id |-> 0, db |-> FALSE]
      [] e.class = "DatabaseError"    -> [kind |-> "service unavailable", id |-> 0, db |-> TRUE]
      [] OTHER                        -> [kind |-> "service unavailable", id |-> 0, db |-> FALSE]

\* ProductRepository.GetByID: the query, and on its error either
\* "if errors.Is(err, generated.ErrNotFound) { return nil, ErrNotFound };
\* return nil, err" or "return nil, translateError(err)".
GetByID(tbl, i, fault, variant) ==
    LET q == GetProductByID(tbl, i, fault)
    IN  IF q.err = NoFault THEN [err |-> NoErr, found |-> TRUE]
        ELSE IF variant = "translate" THEN [err |-> translateError(q.err), found |-> FALSE]
        ELSE IF q.err.class = "NotFound"
             THEN [err |-> [kind |-> "ErrNotFound", id |-> 0, db |-> FALSE], found |-> FALSE]
             ELSE [err |-> [kind |-> q.err.class, id |-> 0, db |-> q.err.db], found |-> FALSE]

\* The service's error check without the translation of ErrNotFound.
NotFoundOrErrAsIs(err, i) == err

\* "if errors.Is(err, repository.ErrNotFound) { return nil,
\*  apperrors.NewNotFoundError("product", id) }; return nil, err"
NotFoundOrErr(err, i) ==
    IF err.kind = "ErrNotFound" THEN [kind |-> "not found", id |-> i, db |-> FALSE] ELSE err

\* ProductService.GetProduct
ServiceGetProduct(tbl, i, fault, variant) ==
    LET r == GetByID(tbl, i, fault, variant)
    IN  IF r.err # NoErr
        THEN [err |-> NotFoundOrErr(r.err, i), found |-> FALSE,
              calls |-> <<"GetByID">>, tbl |-> tbl]
        ELSE [err |-> NoErr, found |-> TRUE, calls |-> <<"GetByID">>, tbl |-> tbl]

\* ProductService.UpdateProduct: the existence check, then the repository's
\* Update (the generated Update, then GetByID for the row to return).
ServiceUpdateProduct(tbl, i, active, fault, variant) ==
    LET r == GetByID(tbl, i, fault, variant)
    IN  IF r.err # NoErr
        THEN [err |-> NotFoundOrErr(r.err, i), found |-> FALSE,
              calls |-> <<"GetByID">>, tbl |-> tbl]
        ELSE [err |-> NoErr, found |-> TRUE, calls |-> <<"GetByID", "Update">>,
              tbl |-> [tbl EXCEPT ![i].active = active]]

\* ProductService.DeleteProduct: the existence check, then the repository's
\* Delete (deleted_at is set).
ServiceDeleteProduct(tbl, i, fault, variant) ==
    LET r == GetByID(tbl, i, fault, variant)
    IN  IF r.err # NoErr
        THEN [err |-> NotFoundOrErr(r.err, i), found |-> FALSE,
              calls |-> <<"GetByID">>, tbl |-> tbl]
        ELSE [err |-> NoErr, found |-> FALSE, calls |-> <<"GetByID", "Delete">>,
              tbl |-> [tbl EXCEPT ![i].deleted = TRUE]]

\* A text of the error body: a fixed text (lit), or the Error() text of an
\* error value (err).
Lit(str) == [lit |-> str, err |-> NoErr]

ErrorText(err) == [lit |-> "", err |-> err]

\* strings.Contains(lowerMsg, "sql") || ... "database" || ... "postgres"
MentionsDatabase(text) == text.err.db

\* sanitizeErrorMessage
sanitizeErrorMessage(message, statusCode) ==
    IF MentionsDatabase(message)
    THEN IF statusCode >= 500 THEN Lit("An internal error occurred") ELSE Lit("Invalid request")
    ELSE IF statusCode >= 500 THEN Lit("An internal error occurred")
    ELSE message

\* NewErrorResponse: type by status, code = err.Error(), the message and the
\* param as given.
NewErrorResponse(httpStatusCode, err, message, param) ==
    [type    |-> IF httpStatusCode >= 400 /\ httpStatusCode < 500
                 THEN "invalid_request_error" ELSE "api_error",
     code    |-> IF err # NoErr THEN ErrorText(err) ELSE Lit("unknown_error"),
     message |-> message,
     param   |-> param]

\* renderError
renderError(statusCode, err, message, param) ==
    [status |-> statusCode,
     body   |-> NewErrorResponse(statusCode, err,
                                 sanitizeErrorMessage(message, statusCode), param)]

\* The message handleServiceError hands to NotFound, BadRequest,
\* ConflictError or InternalError for an error.
ServiceErrorMessage(err) ==
    CASE err.kind \in {"not found", "validation", "conflict"} -> ErrorText(err)
      [] err.kind = "optimistic lock" ->
            Lit("resource has been modified, please refresh and try again")
      [] OTHER -> Lit("internal server error")

\* handleServiceError with its rendering: status and error body.  The param
\* is validationErr.Field, which translateError leaves empty.
RenderServiceError(err) ==
    renderError(handleServiceError(err.kind), err, ServiceErrorMessage(err), Lit(""))

NoErrorBody == [type |-> "", code |-> Lit(""), message |-> Lit(""), param |-> Lit("")]

\* ------------------------------------------------------------ state
NoFilter == [Active |-> "nil", Limit |-> 1,
             StartingAfter |-> NoCursor, EndingBefore |-> NoCursor]

\* call: the list call whose result the caller is holding (done), with the
\* outcome of its store query (storeErr) and what the call did.  trav: a client paging through the list: the filter and
\* limit it uses, the results of the pages fetched so far by following
\* next_cursor, and the result of the backward request made with the
\* prev_cursor of page backOf (0: none made).
NoCall == [done |-> FALSE, filter |-> NoFilter, storeErr |-> "nil", queries |-> 0,
           fetchLimit |-> 0, rows |-> <<>>, err |-> "nil", result |-> NoResult]

\* http: the GET /products request whose response the client is holding, with
\* what the handler did; from is the cursor the repository returned with the
\* page whose next_cursor this request carries (NoCursor: not a follow-up).
NoQuery == [limit |-> <<>>, active |-> "", starting_after |-> <<>>]

NoHttp == [done |-> FALSE, query |-> NoQuery, from |-> NoCursor, filter |-> NoFilter,
           queries |-> 0, err |-> "nil", result |-> NoResult, status |-> 0,
           body |-> NoBody]

NoTrav == [on |-> FALSE, Active |-> "nil", Limit |-> 1, pages |-> <<>>,
           backOf |-> 0, back |-> NoResult]

\* writes: what other clients wrote while the paging client was between pages:
\* behind holds the ids inserted at or before the id of the last row the client
\* had received; goneAt[i] is the number of pages the client had received when
\* row i was deleted (0: not deleted during the paging).
NoWrites == [behind |-> {}, goneAt |-> [i \in Ids |-> 0]]

\* serve: the process running `serve`.  pc is where runServe is: before
\* db.Connect ("init"), before the server goroutine is started ("connected"),
\* blocked on <-quit ("waiting"), inside srv.Shutdown ("shutdown"), returning
\* with its deferred calls still to run ("unwinding"), returned ("returned"),
\* or the process has ended ("exited").  srv is the HTTP server: not started
\* ("new"), its goroutine started ("starting"), accepting ("listening"),
\* ListenAndServe failed ("failed"), or Shutdown was called ("closed").  pool
\* is the database pool: "none" before Connect, "open", or "closed" by
\* db.Shutdown.  inflight are the requests being handled, each a POST
\* /products that will create product id or a DELETE /products/{id}, at
\* most one per id.  shutdownReturned:
\* srv.Shutdown has returned.  late: a request was handled to its end after
\* the pool was closed.
NoServe == [pc |-> "init", srv |-> "new", pool |-> "none", inflight |-> {},
            shutdownReturned |-> FALSE, late |-> FALSE]

\* op: the GET, PATCH or DELETE /products/{id} request whose response the
\* client is holding: the request (kind, id, the active flag of a PATCH), how
\* the repository reports errors (variant) and how the existence query ended
\* (fault), whether DeleteProduct(id) had returned success before
\* (afterDelete), what the service returned (err, found), the repository
\* methods it invoked (calls), whether the request changed the table
\* (changed), and the response.
NoOp == [done |-> FALSE, kind |-> "none", id |-> 0, active |-> FALSE,
         variant |-> "sentinel", fault |-> NoFault, afterDelete |-> FALSE,
         err |-> NoErr, found |-> FALSE, calls |-> <<>>, changed |-> FALSE,
         status |-> 0, body |-> NoErrorBody]

Init ==
    /\ op = NoOp
    /\ deletedOk = {}
    /\ serve = NoServe
    /\ writes = NoWrites
    /\ table = [i \in Ids |-> AbsentRow]
    /\ call = NoCall
    /\ trav = NoTrav
    /\ http = NoHttp

Idle == call = NoCall /\ trav = NoTrav /\ http = NoHttp /\ op = NoOp

\* ProductService.CreateProduct -> ProductRepository.Create: a row with a fresh
\* id (GenerateIDWithPrefix) is inserted, deleted_at NULL.
CreateProduct(i, active) ==
    /\ Idle
    /\ ~table[i].present
    /\ table' = [table EXCEPT ![i] = [present |-> TRUE, active |-> active, deleted |-> FALSE]]
    /\ UNCHANGED <<call, trav, http, writes, op, deletedOk, serve>>

\* ProductService.UpdateProduct: existence check (GetByID, deleted_at IS NULL),
\* then the repository's Update.
UpdateProduct(i, active) ==
    /\ Idle
    /\ table[i].present /\ ~table[i].deleted
    /\ table' = [table EXCEPT ![i].active = active]
    /\ UNCHANGED <<call, trav, http, writes, op, deletedOk, serve>>

\* ProductService.DeleteProduct: existence check, then the soft delete.
DeleteProduct(i) ==
    /\ Idle
    /\ table[i].present /\ ~table[i].deleted
    /\ table' = [table EXCEPT ![i].deleted = TRUE]
    /\ UNCHANGED <<call, trav, http, writes, op, deletedOk, serve>>

\* One list call through the service, with any filter; the query succeeds.
List(filter) ==
    /\ Idle
    /\ call' = [done |-> TRUE, filter |-> filter, storeErr |-> "nil"]
               @@ ServiceListProducts(table, filter, "nil")
    /\ UNCHANGED <<table, trav, http, writes, op, deletedOk, serve>>

\* The caller has read the result of the call.
Return ==
    /\ call # NoCall
    /\ call' = NoCall
    /\ UNCHANGED <<table, trav, http, writes, op, deletedOk, serve>>

Next ==
    \/ \E i \in Ids, a \in BOOLEAN : CreateProduct(i, a)
    \/ \E i \in Ids, a \in BOOLEAN : UpdateProduct(i, a)
    \/ \E i \in Ids : DeleteProduct(i)
    \/ \E f \in Filters : List(f)
    \/ Return

Spec == Init /\ [][Next]_vars

\* ------------------------------------------------ list calls on a failing store
\* The requests of a client paging forward: first page or starting_after.
ForwardFilters == { f \in Filters : f.EndingBefore = NoCursor }

\* One list call through the service whose store query ends with storeErr:
\* "nil", a failure of the store, or the cancellation of the caller's context.
ListOutcome(filter, storeErr) ==
    /\ Idle
    /\ call' = [done |-> TRUE, filter |-> filter, storeErr |-> storeErr]
               @@ ServiceListProducts(table, filter, storeErr)
    /\ UNCHANGED <<table, trav, http, writes, op, deletedOk, serve>>

NextFail ==
    \/ \E i \in Ids, a \in BOOLEAN : CreateProduct(i, a)
    \/ \E i \in Ids, a \in BOOLEAN : UpdateProduct(i, a)
    \/ \E i \in Ids : DeleteProduct(i)
    \/ \E f \in ForwardFilters, e \in StoreErrors \cup {"nil"} : ListOutcome(f, e)
    \/ Return

SpecFail == Init /\ [][NextFail]_vars

\* ------------------------------------------------- paging through the list
PageFilter(active, limit, startingAfter, endingBefore) ==
    [Active |-> active, Limit |-> limit,
     StartingAfter |-> startingAfter, EndingBefore |-> endingBefore]

\* First page: a list request without cursor.
StartTraversal(active, limit) ==
    /\ Idle
    /\ trav' = [on |-> TRUE, Active |-> active, Limit |-> limit,
                pages |-> << ServiceListProducts(table,
                                PageFilter(active, limit, NoCursor, NoCursor), "nil").result >>,
                backOf |-> 0, back |-> NoResult]
    /\ UNCHANGED <<table, call, http, writes, op, deletedOk, serve>>

\* Next page: "if result.HasMore { ... NextCursor: result.NextCursor }"
NextPage ==
    /\ trav.on
    /\ trav.pages[Len(trav.pages)].HasMore
    /\ LET last == trav.pages[Len(trav.pages)]
           res  == ServiceListProducts(table,
                       PageFilter(trav.Active, trav.Limit, last.NextCursor, NoCursor), "nil").result
       IN  trav' = [trav EXCEPT !.pages = Append(@, res)]
    /\ UNCHANGED <<table, call, http, writes, op, deletedOk, serve>>

\* Previous page: a backward request with the prev_cursor returned with page k.
PreviousPage(k) ==
    /\ trav.on
    /\ k \in 2 .. Len(trav.pages)
    /\ trav.pages[k].PrevCursor # NoCursor
    /\ LET res == ServiceListProducts(table,
                      PageFilter(trav.Active, trav.Limit, NoCursor, trav.pages[k].PrevCursor),
                      "nil").result
       IN  trav' = [trav EXCEPT !.backOf = k, !.back = res]
    /\ UNCHANGED <<table, call, http, writes, op, deletedOk, serve>>

\* The client stops paging.
EndTraversal ==
    /\ trav.on
    /\ trav' = NoTrav
    /\ writes' = NoWrites
    /\ UNCHANGED <<table, call, http, op, deletedOk, serve>>

NextTrav ==
    \/ \E i \in Ids, a \in BOOLEAN : CreateProduct(i, a)
    \/ \E i \in Ids, a \in BOOLEAN : UpdateProduct(i, a)
    \/ \E i \in Ids : DeleteProduct(i)
    \/ \E a \in ActiveFilters, l \in Limits : StartTraversal(a, l)
    \/ NextPage
    \/ \E k \in 1 .. MaxId + 1 : PreviousPage(k)
    \/ EndTraversal

SpecTrav == Init /\ [][NextTrav]_vars

\* ------------------------------------------- writes between the pages
RECURSIVE LastId(_)
\* The id of the last row of the pages received (0: no row received yet).
LastId(pages) ==
    IF pages = <<>> THEN 0
    ELSE LET products == pages[Len(pages)].Products
         IN  IF products # <<>> THEN products[Len(products)].ID
             ELSE LastId(SubSeq(pages, 1, Len(pages) - 1))

\* Another client creates a product while the paging client holds a page.
CreateDuringPaging(i, active) ==
    /\ trav.on
    /\ ~table[i].present
    /\ table' = [table EXCEPT ![i] = [present |-> TRUE, active |-> active, deleted |-> FALSE]]
    /\ writes' = [writes EXCEPT !.behind = IF i <= LastId(trav.pages) THEN @ \cup {i} ELSE @]
    /\ UNCHANGED <<call, trav, http, op, deletedOk, serve>>

\* Another client deletes a product while the paging client holds a page.
DeleteDuringPaging(i) ==
    /\ trav.on
    /\ table[i].present /\ ~table[i].deleted
    /\ table' = [table EXCEPT ![i].deleted = TRUE]
    /\ writes' = [writes EXCEPT !.goneAt[i] = Len(trav.pages)]
    /\ UNCHANGED <<call, trav, http, op, deletedOk, serve>>

NextWrites ==
    \/ \E i \in Ids, a \in BOOLEAN : CreateProduct(i, a)
    \/ \E i \in Ids : DeleteProduct(i)
    \/ \E a \in ActiveFilters, l \in 1 .. MaxPage : StartTraversal(a, l)
    \/ NextPage
    \/ \E i \in Ids, a \in BOOLEAN : CreateDuringPaging(i, a)
    \/ \E i \in Ids : DeleteDuringPaging(i)
    \/ EndTraversal

SpecWrites == Init /\ [][NextWrites]_vars

\* ------------------------------------------------- /products/{id}
\* The response of a product handler for what the service returned:
\* handleServiceError on an error, else Success (200) or, for DELETE,
\* 204 No Content.
ProductResponse(r, okStatus) ==
    IF r.err # NoErr
    THEN [err |-> r.err, found |-> FALSE, calls |-> r.calls, changed |-> r.tbl # table]
         @@ RenderServiceError(r.err)
    ELSE [err |-> NoErr, found |-> r.found, calls |-> r.calls, changed |-> r.tbl # table,
          status |-> okStatus, body |-> NoErrorBody]

OpRequest(kind, i, active, fault, variant) ==
    [done |-> TRUE, kind |-> kind, id |-> i, active |-> active,
     variant |-> variant, fault |-> fault, afterDelete |-> (i \in deletedOk)]

\* Handler.GetProduct
GetProductOp(i, fault, variant) ==
    /\ Idle
    /\ op' = OpRequest("get", i, FALSE, fault, variant)
             @@ ProductResponse(ServiceGetProduct(table, i, fault, variant), 200)
    /\ UNCHANGED <<table, call, trav, http, writes, deletedOk, serve>>

\* Handler.UpdateProduct, with a request body that decodes and validates.
UpdateProductOp(i, active, fault, variant) ==
    /\ Idle
    /\ LET r == ServiceUpdateProduct(table, i, active, fault, variant)
       IN  /\ op' = OpRequest("update", i, active, fault, variant) @@ ProductResponse(r, 200)
           /\ table' = r.tbl
    /\ UNCHANGED <<call, trav, http, writes, deletedOk, serve>>

\* Handler.DeleteProduct
DeleteProductOp(i, fault, variant) ==
    /\ Idle
    /\ LET r == ServiceDeleteProduct(table, i, fault, variant)
       IN  /\ op' = OpRequest("delete", i, FALSE, fault, variant) @@ ProductResponse(r, 204)
           /\ table' = r.tbl
           /\ deletedOk' = IF r.err = NoErr THEN deletedOk \cup {i} ELSE deletedOk
    /\ UNCHANGED <<call, trav, http, writes, serve>>

\* The client is done with the response.
OpDone ==
    /\ op # NoOp
    /\ op' = NoOp
    /\ UNCHANGED <<table, call, trav, http, writes, deletedOk, serve>>

NextOps ==
    \/ \E i \in Ids, a \in BOOLEAN : CreateProduct(i, a)
    \/ \E i \in Ids, f \in DbFaults \cup {NoFault}, v \in RepoVariants : GetProductOp(i, f, v)
    \/ \E i \in Ids, f \in CheckFaults \cup {NoFault}, v \in RepoVariants :
          UpdateProductOp(i, ~table[i].active, f, v)
    \/ \E i \in Ids, f \in CheckFaults \cup {NoFault}, v \in RepoVariants : DeleteProductOp(i, f, v)
    \/ OpDone
    \/ \E a \in ActiveFilters : List(PageFilter(a, MaxLimit, NoCursor, NoCursor))
    \/ Return

SpecOps == Init /\ [][NextOps]_vars

\* ----------------------------------------------------------- serve
\* db.Connect: on an error runServe returns before anything is deferred.
Connect(ok) ==
    /\ serve.pc = "init"
    /\ serve' = IF ok THEN [serve EXCEPT !.pc = "connected", !.pool = "open"]
                ELSE [serve EXCEPT !.pc = "returned"]
    /\ UNCHANGED <<table, call, trav, http, writes, op, deletedOk>>

\* go func() { ... srv.ListenAndServe() ... }(), then main blocks on <-quit.
StartServer ==
    /\ serve.pc = "connected"
    /\ serve' = [serve EXCEPT !.pc = "waiting", !.srv = "starting"]
    /\ UNCHANGED <<table, call, trav, http, writes, op, deletedOk>>

\* ListenAndServe has bound its address and accepts connections.
Listen ==
    /\ serve.pc = "waiting"
    /\ serve.srv = "starting"
    /\ serve' = [serve EXCEPT !.srv = "listening"]
    /\ UNCHANGED <<table, call, trav, http, writes, op, deletedOk>>

\* ListenAndServe returns an error other than http.ErrServerClosed (the
\* address is in use, accepting fails): the goroutine calls os.Exit(1), which
\* ends the process without running deferred calls.
ListenAndServeFails ==
    /\ serve.pc = "waiting"
    /\ serve.srv \in {"starting", "listening"}
    /\ serve' = [serve EXCEPT !.srv = "failed", !.pc = "exited", !.inflight = {}]
    /\ UNCHANGED <<table, call, trav, http, writes, op, deletedOk>>

\* The requests the server may be handling.
Requests == [id : Ids, kind : {"create", "delete"}]

\* The server accepts a request and starts its handler.
Accept(req) ==
    /\ serve.pc = "waiting"
    /\ serve.srv = "listening"
    /\ \A r \in serve.inflight : r.id # req.id
    /\ serve' = [serve EXCEPT !.inflight = @ \cup {req}]
    /\ UNCHANGED <<table, call, trav, http, writes, op, deletedOk>>

\* The table after a handler has run its request through the service.
Handled(tbl, req) ==
    IF req.kind = "create"
    THEN IF tbl[req.id].present THEN tbl
         ELSE [tbl EXCEPT ![req.id] = [present |-> TRUE, active |-> TRUE, deleted |-> FALSE]]
    ELSE ServiceDeleteProduct(tbl, req.id, NoFault, "translate").tbl

\* A handler finishes its request; handlers run as long as the process
\* does.  With the pool closed the request finds no database.
Finish(req) ==
    /\ serve.pc # "exited"
    /\ req \in serve.inflight
    /\ serve' = [serve EXCEPT !.inflight = @ \ {req},
                              !.late = @ \/ serve.pool = "closed"]
    /\ table' = IF serve.pool = "open" THEN Handled(table, req) ELSE table
    /\ UNCHANGED <<call, trav, http, writes, op, deletedOk>>

\* SIGINT or SIGTERM arrives: <-quit returns and srv.Shutdown(shutdownCtx)
\* is called, which closes the listeners.
Signal ==
    /\ serve.pc = "waiting"
    /\ serve' = [serve EXCEPT !.pc = "shutdown", !.srv = "closed"]
    /\ UNCHANGED <<table, call, trav, http, writes, op, deletedOk>>

\* srv.Shutdown returns: nil once no request is being handled, or the
\* context's error after 10 seconds with requests still being handled.
ShutdownReturns ==
    /\ serve.pc = "shutdown"
    /\ serve' = [serve EXCEPT !.pc = "unwinding", !.shutdownReturned = TRUE]
    /\ UNCHANGED <<table, call, trav, http, writes, op, deletedOk>>

\* runServe returns: defer cancel(), defer func() { _ = db.Shutdown(ctx) }().
RunDeferred ==
    /\ serve.pc = "unwinding"
    /\ serve' = [serve EXCEPT !.pc = "returned", !.pool = "closed"]
    /\ UNCHANGED <<table, call, trav, http, writes, op, deletedOk>>

\* The process ends after runServe has returned.
ProcessExit ==
    /\ serve.pc = "returned"
    /\ serve' = [serve EXCEPT !.pc = "exited", !.inflight = {}]
    /\ UNCHANGED <<table, call, trav, http, writes, op, deletedOk>>

NextServe ==
    \/ \E ok \in BOOLEAN : Connect(ok)
    \/ StartServer
    \/ Listen
    \/ ListenAndServeFails
    \/ \E r \in Requests : Accept(r)
    \/ \E r \in Requests : Finish(r)
    \/ Signal
    \/ ShutdownReturns
    \/ RunDeferred
    \/ ProcessExit

SpecServe == Init /\ [][NextServe]_vars

\* ------------------------------------------------------- GET /products
\* A client sends one list request with any query parameters.
GetProducts(query) ==
    /\ Idle
    /\ http' = [done |-> TRUE, query |-> query, from |-> NoCursor]
               @@ HandlerListProducts(table, query, "nil")
    /\ UNCHANGED <<table, call, trav, writes, op, deletedOk, serve>>

\* The client asks for the next page: the same query with the next_cursor of
\* the response it holds as starting_after.
GetNextProducts ==
    /\ http.done /\ http.status = 200
    /\ http.body.next_cursor # <<>>
    /\ LET query == [http.query EXCEPT !.starting_after = http.body.next_cursor]
       IN  http' = [done |-> TRUE, query |-> query, from |-> http.result.NextCursor]
                   @@ HandlerListProducts(table, query, "nil")
    /\ UNCHANGED <<table, call, trav, writes, op, deletedOk, serve>>

\* The client is done with the response.
Respond ==
    /\ http # NoHttp
    /\ http' = NoHttp
    /\ UNCHANGED <<table, call, trav, writes, op, deletedOk, serve>>

NextHttp ==
    \/ \E i \in Ids, a \in BOOLEAN : CreateProduct(i, a)
    \/ \E i \in Ids, a \in BOOLEAN : UpdateProduct(i, a)
    \/ \E i \in Ids : DeleteProduct(i)
    \/ \E q \in Queries : GetProducts(q)
    \/ GetNextProducts
    \/ Respond

SpecHttp == Init /\ [][NextHttp]_vars

\* =================================================================== claims
\* The rows a list with the given active filter must show: present, not
\* soft-deleted, and matching the filter.
LiveMatching(active) ==
    { i \in Ids : /\ table[i].present /\ table[i].deleted = FALSE
                  /\ CASE active = "nil"   -> TRUE
                       [] active = "true"  -> table[i].active
                       [] active = "false" -> ~table[i].active }

RECURSIVE ConcatPages(_)
ConcatPages(pages) ==
    IF pages = <<>> THEN <<>> ELSE Head(pages).Products \o ConcatPages(Tail(pages))

ProductIds(products) == { products[k].ID : k \in 1 .. Len(products) }

TravDone == trav.on /\ ~trav.pages[Len(trav.pages)].HasMore

\* C1 Completeness under no mutation: once a forward traversal of an
\* unchanging table has reached a page with hasMore = false, the concatenation
\* of its pages is strictly ascending in id (no duplicates) and holds exactly
\* the rows that are not soft-deleted and match the active filter (no gaps),
\* each with its column values, for every limit tried.
C1_Completeness ==
    TravDone =>
        LET got == ConcatPages(trav.pages)
        IN  /\ \A k \in 1 .. Len(got) - 1 : got[k].ID < got[k + 1].ID
            /\ ProductIds(got) = LiveMatching(trav.Active)
            /\ \A k \in 1 .. Len(got) :
                  /\ got[k].Active = table[got[k].ID].active
                  /\ got[k].DeletedAt = FALSE

\* A finished traversal of two pages or more over a table that also holds a
\* row the list must not show.
C1_Witness ==
    /\ TravDone
    /\ Len(trav.pages) >= 2
    /\ \E i \in Ids : table[i].present /\ i \notin LiveMatching(trav.Active)

\* C2 Symmetry (as claimed): the backward request made with the prev cursor
\* of page k >= 2 and the same limit returns the items of page k-1, in order.
C2_Symmetry ==
    (trav.on /\ trav.backOf >= 2) =>
        trav.back.Products = trav.pages[trav.backOf - 1].Products

Backward(f) == f.EndingBefore # NoCursor /\ f.StartingAfter = NoCursor
Forward(f) == f.EndingBefore = NoCursor

\* C3 Mutual exclusion (as claimed): a call with both cursors set ends with a
\* validation error and issues no store query.
C3_MutualExclusion ==
    (call.done /\ call.filter.StartingAfter # NoCursor
               /\ call.filter.EndingBefore # NoCursor) =>
        (call.err = "validation" /\ call.queries = 0)

\* C4 Overfetch correctness: every successful list call asked the store for
\* limit+1 rows; when the store returned limit+1 rows the page is the first
\* limit of them and has_more is true; when it returned limit or fewer the
\* page is all of them, unchanged, and has_more is false.
C4_Overfetch ==
    (call.done /\ call.err = "nil") =>
        LET L == call.filter.Limit
            items == call.result.Products
        IN  /\ call.queries = 1
            /\ call.fetchLimit = L + 1
            /\ Len(call.rows) <= L + 1
            /\ Len(call.rows) = L + 1 =>
                  /\ Len(items) = L
                  /\ call.result.HasMore
            /\ Len(call.rows) <= L =>
                  /\ Len(items) = Len(call.rows)
                  /\ ~call.result.HasMore
            /\ \A k \in 1 .. Len(items) :
                  /\ items[k].ID = call.rows[k].Id
                  /\ items[k].Active = call.rows[k].Active
                  /\ items[k].DeletedAt = call.rows[k].Deleted

\* A call with limit 2 or more for which the store returned the overfetch row.
C4_Witness ==
    /\ call.done /\ call.err = "nil"
    /\ Len(call.rows) = call.filter.Limit + 1
    /\ call.filter.Limit >= 2

\* The up to L matching ids immediately before cursor c.
NearestBefore(active, c, L) ==
    LET M == { i \in LiveMatching(active) : i < c }
    IN  { i \in M : Cardinality({ j \in M : j > i }) < L }

\* C5 Backward pages are the rows nearest the cursor (as claimed): the items
\* of a backward request are the up to limit matching rows immediately
\* preceding beforeCursor.
C5_BackwardNearest ==
    (call.done /\ call.err = "nil" /\ Backward(call.filter)) =>
        ProductIds(call.result.Products) =
            NearestBefore(call.filter.Active, call.filter.EndingBefore, call.filter.Limit)

\* C6 Backward-page flags (as claimed): on a backward request hasMore is true,
\* and a previous page is reported exactly when the store returned limit+1 rows.
C6_BackwardFlags ==
    (call.done /\ call.err = "nil" /\ Backward(call.filter)) =>
        /\ call.result.HasMore
        /\ (call.result.PrevCursor # NoCursor) <=> (Len(call.rows) = call.filter.Limit + 1)

C9_StrictComparison ==
    (call.done /\ call.err = "nil") =>
        \A k \in 1 .. Len(call.result.Products) :
            LET id == call.result.Products[k].ID
            IN  /\ call.filter.StartingAfter # NoCursor => id > call.filter.StartingAfter
                /\ call.filter.EndingBefore # NoCursor => id < call.filter.EndingBefore

\* A non-empty page requested with the id of a live matching row as cursor.
C9_Witness ==
    /\ call.done /\ call.err = "nil"
    /\ call.result.Products # <<>>
    /\ \/ /\ Forward(call.filter)
          /\ call.filter.StartingAfter \in LiveMatching(call.filter.Active)
       \/ /\ Backward(call.filter)
          /\ call.filter.EndingBefore \in LiveMatching(call.filter.Active)

\* C10 Page size bound: every list result has at most limit items.
C10_PageSizeBound ==
    (call.done /\ call.err = "nil") =>
        Len(call.result.Products) <= call.filter.Limit

\* A full page of a table that holds more matching rows than the limit.
C10_Witness ==
    /\ call.done /\ call.err = "nil"
    /\ Len(call.result.Products) = call.filter.Limit
    /\ Cardinality(LiveMatching(call.filter.Active)) > call.filter.Limit

\* C11 Logical order: the items of every page, whatever cursors the request
\* carried, are in strictly ascending id order (ORDER BY id ASC); a page
\* requested with ending_before is not returned reversed.
C11_LogicalOrder ==
    (call.done /\ call.err = "nil") =>
        \A k \in 1 .. Len(call.result.Products) - 1 :
            call.result.Products[k].ID < call.result.Products[k + 1].ID

\* A page of two items or more requested with ending_before.
C11_Witness ==
    /\ call.done /\ call.err = "nil" /\ Backward(call.filter)
    /\ Len(call.result.Products) >= 2

\* The rows a request may show at all: live, matching, and on the requested
\* side of each cursor it carries.
InRange(f) ==
    { i \in LiveMatching(f.Active) :
        /\ (f.StartingAfter # NoCursor => i > f.StartingAfter)
        /\ (f.EndingBefore # NoCursor => i < f.EndingBefore) }

\* C16 Filters do not affect pagination semantics: every item of every page
\* is a live row that satisfies the active filter; so is the overfetch row;
\* has_more says exactly whether more than limit such rows lie in the cursor
\* range; and the cursors returned are ids of such rows.
C16_FilterAnded ==
    (call.done /\ call.err = "nil") =>
        LET f == call.filter
        IN  /\ ProductIds(call.result.Products) \subseteq InRange(f)
            /\ \A k \in 1 .. Len(call.rows) : call.rows[k].Id \in InRange(f)
            /\ call.result.HasMore <=> (Cardinality(InRange(f)) > f.Limit)
            /\ call.result.NextCursor # NoCursor => call.result.NextCursor \in InRange(f)
            /\ call.result.PrevCursor # NoCursor => call.result.PrevCursor \in InRange(f)

\* A filtered page with has_more whose overfetch row lies beyond a row of the
\* table that the list must not show.
C16_Witness ==
    /\ call.done /\ call.err = "nil"
    /\ call.filter.Active # "nil"
    /\ call.result.HasMore
    /\ \E i \in Ids : /\ table[i].present
                      /\ i \notin LiveMatching(call.filter.Active)
                      /\ i < call.rows[Len(call.rows)].Id

\* C18 A cursor whose row has been deleted is still valid: a forward request
\* whose starting_after is the id of a soft-deleted row succeeds, returns the
\* first limit live matching rows with a greater id, and returns what it
\* would return were that row still live.
C18_DeletedCursorRow ==
    (call.done /\ Forward(call.filter)
        /\ call.filter.StartingAfter \in Ids
        /\ table[call.filter.StartingAfter].present
        /\ table[call.filter.StartingAfter].deleted) =>
        LET f == call.filter
            c == f.StartingAfter
            M == { i \in LiveMatching(f.Active) : i > c }
            restored == [table EXCEPT ![c].deleted = FALSE]
        IN  /\ call.err = "nil"
            /\ ProductIds(call.result.Products) =
                  { i \in M : Cardinality({ j \in M : j < i }) < f.Limit }
            /\ call.result = ListWithFilters(restored, f, "nil").result

\* A non-empty page requested with the id of a soft-deleted row.
C18_Witness ==
    /\ call.done /\ call.err = "nil" /\ Forward(call.filter)
    /\ call.filter.StartingAfter \in Ids
    /\ table[call.filter.StartingAfter].present
    /\ table[call.filter.StartingAfter].deleted
    /\ call.result.Products # <<>>

\* C20 Empty page is not an error: a request that carries a cursor and for
\* which the store returns no rows succeeds with no items, has_more false and
\* no next cursor.
C20_EmptyPage ==
    (call.done /\ CanGoBack(call.filter) /\ InRange(call.filter) = {}) =>
        /\ call.err = "nil"
        /\ call.queries = 1
        /\ call.rows = <<>>
        /\ call.result.Products = <<>>
        /\ ~call.result.HasMore
        /\ call.result.NextCursor = NoCursor

\* A request with a cursor past the last live row of a table that has live rows.
C20_Witness ==
    /\ call.done /\ call.err = "nil"
    /\ call.filter.StartingAfter # NoCursor
    /\ call.rows = <<>>
    /\ \E i \in Ids : table[i].present /\ ~table[i].deleted

\* C19 Store failures pass through: when the store query of a list call fails
\* (a store failure or the cancellation of the caller's context), the call
\* made that one query and returns that very error, with no result: no
\* items, no flag, no cursor.
C19_StoreErrorPassThrough ==
    (call.done /\ call.storeErr # "nil") =>
        /\ call.err = call.storeErr
        /\ call.queries = 1
        /\ call.result = NoResult

\* A list call cancelled by its caller on a table with live rows, and a
\* request that would otherwise have returned a page.
C19_Witness ==
    /\ call.done /\ call.storeErr = "canceled"
    /\ call.err = "canceled"
    /\ InRange(call.filter) # {}

\* ---------------------------------------------------------------- C12
\* A starting_after text that is not the text of a product id.
MalformedCursor(str) == str # <<>> /\ ~(\E i \in Ids : str = IdText(i))

\* C12: a list request whose cursor string is malformed is answered with an
\* error and no store query is issued for it.
C12_MalformedCursorRejected ==
    (http.done /\ MalformedCursor(http.query.starting_after)) =>
        /\ http.status >= 400
        /\ http.queries = 0

C14_LimitClamped ==
    (http.done /\ Atoi(http.query.limit).ok /\ Atoi(http.query.limit).n > MaxLimit) =>
        /\ http.status = 200
        /\ http.filter.Limit = MaxLimit

\* ---------------------------------------------------------------- C15
\* C15: a list request whose limit is a number not above zero fails with a
\* validation error (status 400) and no store query is issued for it.
C15_NonPositiveRejected ==
    (http.done /\ Atoi(http.query.limit).ok /\ Atoi(http.query.limit).n <= 0) =>
        /\ http.status = 400
        /\ http.queries = 0

\* ---------------------------------------------------------------- C17
\* The ids on page k of the traversal.
PageIds(k) == ProductIds(trav.pages[k].Products)

\* C17: while a client pages forward and other clients insert and delete
\* rows between its pages, a row inserted at or before the last row received
\* is on no page, a row deleted when k pages had been received is on no page
\* after the k-th, and the ids of all pages together are strictly ascending
\* (no row is on more than one page).
C17_PagingUnderWrites ==
    trav.on =>
        /\ \A i \in writes.behind : \A k \in 1 .. Len(trav.pages) : i \notin PageIds(k)
        /\ \A i \in Ids : writes.goneAt[i] > 0 =>
              \A k \in writes.goneAt[i] + 1 .. Len(trav.pages) : i \notin PageIds(k)
        /\ LET all == ConcatPages(trav.pages)
           IN  \A k \in 1 .. Len(all) - 1 : all[k].ID < all[k + 1].ID

\* A traversal that went on after both kinds of write: a row was inserted
\* behind the client's position, a row matching the filter ahead of that
\* position was deleted, and a later page was fetched.
C17_Witness ==
    /\ trav.on
    /\ writes.behind # {}
    /\ \E i \in Ids :
          /\ writes.goneAt[i] > 0
          /\ writes.goneAt[i] < Len(trav.pages)
          /\ i > LastId(SubSeq(trav.pages, 1, writes.goneAt[i]))
          /\ trav.Active \in {"nil", IF table[i].active THEN "true" ELSE "false"}

\* ---------------------------------------------------------------- C21
\* The up to L first ids of the rows a request may show.
FirstInRange(f) ==
    { i \in InRange(f) : Cardinality({ j \in InRange(f) : j < i }) < f.Limit }

OpDbClass ==
    IF op.fault # NoFault THEN op.fault.class
    ELSE IF op.err # NoErr THEN "NotFound" ELSE "nil"

\* The HTTP status DATABASE.md documents for a class of database error.
DocumentedStatus(class) ==
    CASE class = "NotFound"         -> 404
      [] class = "AlreadyExists"    -> 409
      [] class = "InvalidReference" -> 409
      [] class = "ValidationError"  -> 400
      [] class = "ConnectionError"  -> 503
      [] class = "Timeout"          -> 408
      [] OTHER                      -> 500

\* C22 (as claimed): a request whose query ends with a database error, the
\* repository translating it with translateError, is answered with the
\* status documented for the class of that error.
C22_DocumentedStatus ==
    (op.done /\ op.variant = "translate" /\ OpDbClass # "nil") =>
        op.status = DocumentedStatus(OpDbClass)

\* ---------------------------------------------------------------- C23
Live(i) == table[i].present /\ ~table[i].deleted

\* C23: GetProduct on an id without a live row, the query itself working,
\* returns a NotFoundError and no product, rendered as 404, whether the
\* repository signals not-found with ErrNotFound or through translateError;
\* and no GetProduct returns neither a product nor an error.
C23_GetProductNotFound ==
    (op.done /\ op.kind = "get") =>
        /\ (op.fault = NoFault /\ ~Live(op.id)) =>
              /\ op.err.kind = "not found"
              /\ ~op.found
              /\ op.status = 404
        /\ ~(op.err = NoErr /\ ~op.found)

\* GetProduct on a soft-deleted product with the sentinel repository.
C23_Witness ==
    /\ op.done /\ op.kind = "get" /\ op.fault = NoFault
    /\ op.variant = "sentinel"
    /\ table[op.id].present /\ table[op.id].deleted
    /\ op.status = 404

\* ---------------------------------------------------------------- C24
\* C24 (as claimed): an error response with status >= 500, or with a 4xx
\* status and an error text that mentions the database, carries the fixed
\* generic message and the text of the error in none of its fields.
C24_Sanitized ==
    (op.done /\ op.err # NoErr
        /\ (op.status >= 500 \/ MentionsDatabase(ErrorText(op.err)))) =>
        /\ op.body.message =
              (IF op.status >= 500 THEN Lit("An internal error occurred")
               ELSE Lit("Invalid request"))
        /\ op.body.code # ErrorText(op.err)
        /\ op.body.param # ErrorText(op.err)

\* ---------------------------------------------------------------- C27
\* C27 Deletion is permanent for readers: once DeleteProduct(id) has
\* returned success, every later GetProduct, UpdateProduct and DeleteProduct
\* of that id whose existence query works returns a NotFoundError (404) and
\* changes nothing, and no later list page holds the id.
C27_DeletionPermanent ==
    /\ (op.done /\ op.afterDelete /\ op.fault = NoFault) =>
          /\ op.err.kind = "not found"
          /\ op.status = 404
          /\ ~op.found
          /\ ~op.changed
    /\ (call.done /\ call.err = "nil") =>
          ProductIds(call.result.Products) \cap deletedOk = {}
    /\ \A i \in deletedOk : ~Live(i)

\* An update of a product that was deleted before, answered 404.
C27_Witness ==
    /\ op.done /\ op.afterDelete /\ op.kind = "update" /\ op.fault = NoFault
    /\ op.status = 404

\* ---------------------------------------------------------------- C28
\* C28 (as claimed): an UpdateProduct or DeleteProduct whose existence check
\* fails returns that failure, a missing product as a NotFoundError carrying
\* the id, invokes neither Update nor Delete of the repository, and changes
\* no row.
C28_MissingLeavesStore ==
    (op.done /\ op.kind \in {"update", "delete"} /\ OpDbClass # "nil") =>
        /\ op.err # NoErr
        /\ op.calls = <<"GetByID">>
        /\ ~op.changed
        /\ OpDbClass = "NotFound" => (op.err.kind = "not found" /\ op.err.id = op.id)

\* ---------------------------------------------------------------- C25
\* C25 Effective limit of the list handler: whatever the limit parameter
\* is, the limit passed to the service lies in 1..100; it is the number the
\* parameter spells when that lies in 1..100 and 10 otherwise; and the
\* request is served (one store query, status 200).
C25_EffectiveLimit ==
    http.done =>
        LET l == http.query.limit
            inRange == Atoi(l).ok /\ Atoi(l).n >= 1 /\ Atoi(l).n <= MaxLimit
        IN  /\ http.filter.Limit >= 1 /\ http.filter.Limit <= MaxLimit
            /\ inRange => http.filter.Limit = Atoi(l).n
            /\ ~inRange => http.filter.Limit = DefaultLimit
            /\ http.queries = 1
            /\ http.status = 200

\* A request with limit=101 served with the default limit, the table holding
\* rows for it.
C25_Witness ==
    /\ http.done
    /\ Atoi(http.query.limit).ok /\ Atoi(http.query.limit).n > MaxLimit
    /\ http.filter.Limit = DefaultLimit
    /\ http.body.data # <<>>

\* ---------------------------------------------------------------- C26
\* ceil(n / l) for l >= 1.
CeilDiv(n, l) == (n + l - 1) \div l

\* C26 Forward traversal terminates: while the table does not change, every
\* next cursor is greater than the cursor its request carried, every page
\* with has_more holds exactly limit rows, and after ceil(N/L) requests (one
\* when N = 0) the last page has has_more = false; N is the number of
\* matching rows and L the limit.
C26_TraversalTerminates ==
    trav.on =>
        LET N == Cardinality(LiveMatching(trav.Active))
            bound == IF N = 0 THEN 1 ELSE CeilDiv(N, trav.Limit)
        IN  /\ \A k \in 1 .. Len(trav.pages) :
                  /\ trav.pages[k].HasMore => Len(trav.pages[k].Products) = trav.Limit
                  /\ (k > 1 /\ trav.pages[k].NextCursor # NoCursor) =>
                        trav.pages[k].NextCursor > trav.pages[k - 1].NextCursor
                  /\ trav.pages[k].HasMore => trav.pages[k].NextCursor # NoCursor
            /\ Len(trav.pages) <= bound
            /\ Len(trav.pages) = bound => ~trav.pages[Len(trav.pages)].HasMore

\* A traversal that needed every one of its ceil(N/L) >= 2 requests, the last
\* page not full.
C26_Witness ==
    /\ TravDone
    /\ Len(trav.pages) >= 2
    /\ Len(trav.pages) = CeilDiv(Cardinality(LiveMatching(trav.Active)), trav.Limit)
    /\ Len(trav.pages[Len(trav.pages)].Products) < trav.Limit

\* ---------------------------------------------------------------- C30
\* C30 (as claimed): once the database connection is established, whenever
\* runServe has returned or the process has ended the pool has been shut
\* down; it is shut down only after srv.Shutdown has returned; and no
\* request is handled to its end after the pool is closed.
C30_ShutdownOrdering ==
    /\ (serve.pc \in {"returned", "exited"} /\ serve.pool # "none") => serve.pool = "closed"
    /\ serve.pool = "closed" => serve.shutdownReturned
    /\ ~serve.late

====
